---- MODULE Spec2Model ----
(***************************************************************************)
(* Back-Agent MCP server: the concurrent task-execution core.              *)
(*                                                                         *)
(* TaskManager (task-manager.ts) owns a Map of Task objects and runs one   *)
(* asynchronous routine (executeTask) per created task.  executeClaudeTask *)
(* (claude/executor.ts) spawns one child process per call and resolves a   *)
(* promise from the child's 'close' / 'error' events, racing a timer.      *)
(*                                                                         *)
(* JavaScript runs one macrotask at a time: every action below is one      *)
(* macrotask (an API call, a timer callback, a child-process event)        *)
(* together with the promise continuations (microtasks) it triggers.       *)
(***************************************************************************)
EXTENDS Integers, Sequences, FiniteSets, TLC

\* ---------------------------------------------------------------- bounds
MaxTasks == 2
MaxConcurrentBound == 2
MaxClock == 1
MaxChunks == 1

\* ------------------------------------------------------ program constants
DefaultTimeout == 300
MaxTimeout == 3600

\* ------------------------------------------------------------- optionals
\* A JavaScript optional: undefined is the empty sequence, a value v is <<v>>.
None == <<>>
Some(v) == <<v>>
IsSome(o) == o # <<>>
Get(o) == o[1]

\* ------------------------------------------------------------- inputs
\* Options handed to createTask: workingDirectory and timeout are optional.
CwdDir == "/cwd"
MissingDir == "/missing"
CreateOptions ==
  { [workingDirectory |-> None, timeout |-> None],
    [workingDirectory |-> Some(MissingDir), timeout |-> Some(5000)] }

\* Exit codes the 'close' event can carry: 0, non-zero, null (killed by signal).
NullCode == -1
ExitCodes == {0, 1, NullCode}

\* Messages an 'error' event can carry, as word sequences.
ErrorMessages == { <<"spawn", "claude", "ENOENT">>, <<"kill", "EPERM">> }

\* Error messages that report a missing executable, by errno or by text.
NotFoundMessages == { <<"spawn", "claude", "ENOENT">>, <<"sh:", "claude:", "not", "found">> }

\* Messages an 'error' event can carry when the executor is looked at alone.
ExecErrorMessages == NotFoundMessages \cup { <<"kill", "EPERM">> }

Chunks == {"a"}

\* existsSync(cwd): the file system the server runs on.
existsSync(dir) == dir # MissingDir

VARIABLES
  maxConcurrent,  \* TaskManager.maxConcurrent
  tasks,          \* keys of TaskManager.tasks (the Map): ids in the registry
  obj,            \* the Task objects ever created, by id (the routine of a
                  \* deleted task still holds its object)
  pc,             \* position of executeTask(id): "sleeping", "executing", "done"
  exec,           \* the executeClaudeTask call made for task id
  now,            \* the wall clock read by new Date() / Date.now()
  ret,            \* the value returned by the last cancelTask, deleteTask or
                  \* cleanup call (createTask returns the newest id of obj)
  cancelledPending, \* history: ids for which cancelTask returned true while pending
  tool            \* the last MCP tool call: its response and, for execute-task,
                  \* the executor call it made

vars == <<maxConcurrent, tasks, obj, pc, exec, now, ret, cancelledPending, tool>>

\* Ids: the tasks created by direct calls of createTask.  QueueIds: the tasks
\* created through the create-task tool, one more, so that a task can queue
\* behind a running one and still see a third arrive.
Ids == 1..MaxTasks
QueueIds == 1..(MaxTasks + 1)
Created == DOMAIN obj

\* ------------------------------------------------------------- executor
\* State of one executeClaudeTask call.
NoCall ==
  [ state |-> "none", timeoutMs |-> 0, timer |-> "none", timedOut |-> FALSE,
    kills |-> 0, killedAfterResult |-> FALSE, closed |-> FALSE, errored |-> FALSE,
    stdout |-> <<>>, stderr |-> <<>>, results |-> 0, result |-> None ]

ToMs(seconds) == seconds * 1000

TimeoutMessage(ms) == <<"Execution timed out after", ToString(ms), "ms">>
CliNotFoundMessage == <<"Claude Code CLI not found. Please ensure Claude Code is installed and in your PATH.">>
TaskFailedMessage == <<"Task execution failed">>
WorkingDirectoryMessage(cwd) == <<"Working directory does not exist:", cwd>>

\* String.prototype.includes on a message, for a needle given as words.
IncludesAtStart(msg, needle) ==
  /\ Len(needle) <= Len(msg)
  /\ \A j \in 1..Len(needle) : msg[j] = needle[j]
Includes(msg, needle) ==
  \E i \in 1..(Len(msg) - Len(needle) + 1) :
     \A j \in 1..Len(needle) : msg[i + j - 1] = needle[j]

\* cwd = workingDirectory ? resolve(workingDirectory) : process.cwd()
ResolveCwd(workingDirectory) ==
  IF IsSome(workingDirectory) THEN Get(workingDirectory) ELSE CwdDir

\* The call as it stands when executeClaudeTask has returned its promise:
\* child spawned, buffers empty, timer armed.
SpawnedCall(timeoutMs) ==
  [ NoCall EXCEPT !.state = "active", !.timeoutMs = timeoutMs, !.timer = "armed" ]

\* The call that threw before spawning (working directory missing).
ThrownCallArmed(timeoutMs) ==
  [ NoCall EXCEPT !.state = "threw", !.timeoutMs = timeoutMs, !.timer = "armed" ]
ThrownCall(timeoutMs) ==
  [ NoCall EXCEPT !.state = "threw", !.timeoutMs = timeoutMs ]

\* resolve(r) of the promise: only the first resolution is delivered.
Resolve(c, r) ==
  IF c.state = "active"
  THEN [ c EXCEPT !.state = "resolved", !.result = Some(r), !.results = @ + 1 ]
  ELSE c

\* The result built by the 'close' handler.
CloseResultNoTimeout(c, code) ==
  [ success |-> (code = 0), stdout |-> c.stdout, stderr |-> c.stderr,
    exitCode |-> code, error |-> None ]
CloseResult(c, code) ==
  IF c.timedOut
  THEN [ success |-> FALSE, stdout |-> c.stdout, stderr |-> c.stderr,
         exitCode |-> code, error |-> Some(TimeoutMessage(c.timeoutMs)) ]
  ELSE [ success |-> (code = 0), stdout |-> c.stdout, stderr |-> c.stderr,
         exitCode |-> code, error |-> None ]

\* The result built by the 'error' handler.
ErrorResult(c, msg) ==
  IF Includes(msg, <<"ENOENT">>) \/ Includes(msg, <<"not", "found">>)
  THEN [ success |-> FALSE, stdout |-> <<>>, stderr |-> <<>>,
         exitCode |-> NullCode, error |-> Some(CliNotFoundMessage) ]
  ELSE [ success |-> FALSE, stdout |-> c.stdout, stderr |-> c.stderr,
         exitCode |-> NullCode, error |-> Some(msg) ]

\* clearTimeout(timeoutHandle)
ClearTimerNoop(c) == c
ClearTimer(c) == [ c EXCEPT !.timer = IF @ = "armed" THEN "cleared" ELSE @ ]

\* ------------------------------------------------------------- manager
NewTask(id, options, t) ==
  [ id |-> id,
    workingDirectory |-> options.workingDirectory,
    timeout |-> IF IsSome(options.timeout) THEN Get(options.timeout) ELSE DefaultTimeout,
    status |-> "pending",
    createdAt |-> t,
    startedAt |-> None,
    completedAt |-> None,
    result |-> None,
    error |-> None ]

Terminal == {"completed", "failed", "cancelled"}

\* getRunningCount(): scan of the Map.
getRunningCountStarted(o, reg) ==
  Cardinality({ i \in reg : IsSome(o[i].startedAt) })
getRunningCount(o, reg) == Cardinality({ i \in reg : o[i].status = "running" })

\* Lines 719-729 of executeTask: the continuation after the awaited call
\* resolved with result r.
RecordResultKeepCancelled(t, r, time) ==
  IF t.status = "cancelled"
  THEN [ t EXCEPT !.result = Some(r) ]
  ELSE [ t EXCEPT !.result = Some(r),
                  !.completedAt = Some(time),
                  !.status = IF r.success THEN "completed" ELSE "failed",
                  !.error = IF r.success THEN @
                            ELSE IF IsSome(r.error) THEN r.error ELSE Some(TaskFailedMessage) ]
RecordResultRestart(t, r, time) ==
  [ t EXCEPT !.result = Some(r),
             !.startedAt = Some(time),
             !.completedAt = Some(time),
             !.status = IF r.success THEN "completed" ELSE "failed",
             !.error = IF r.success THEN @
                       ELSE IF IsSome(r.error) THEN r.error ELSE Some(TaskFailedMessage) ]
RecordResultErrorAlways(t, r, time) ==
  [ t EXCEPT !.result = Some(r),
             !.completedAt = Some(time),
             !.status = IF r.success THEN "completed" ELSE "failed",
             !.error = IF IsSome(r.error) THEN r.error ELSE Some(TaskFailedMessage) ]
RecordResult(t, r, time) ==
  [ t EXCEPT !.result = Some(r),
             !.completedAt = Some(time),
             !.status = IF r.success THEN "completed" ELSE "failed",
             !.error = IF r.success THEN @
                       ELSE IF IsSome(r.error) THEN r.error ELSE Some(TaskFailedMessage) ]

\* Lines 730-735 of executeTask: the catch block.
RecordThrowNoStatus(t, msg, time) ==
  [ t EXCEPT !.error = Some(msg), !.completedAt = Some(time) ]
RecordThrowNoStamp(t, msg, time) ==
  [ t EXCEPT !.status = "failed", !.error = Some(msg) ]
RecordThrow(t, msg, time) ==
  [ t EXCEPT !.status = "failed", !.error = Some(msg), !.completedAt = Some(time) ]

\* Lines 707-717 and 730-735: the task takes a slot and calls the executor;
\* a missing working directory makes the call throw, which the catch block
\* records in the same macrotask.
StartedTaskNoStamp(t, time) ==
  LET r == [ t EXCEPT !.status = "running" ]
      cwd == ResolveCwd(t.workingDirectory)
  IN  IF existsSync(cwd) THEN r
      ELSE RecordThrow(r, WorkingDirectoryMessage(cwd), time)
StartedTask(t, time) ==
  LET r == [ t EXCEPT !.status = "running", !.startedAt = Some(time) ]
      cwd == ResolveCwd(t.workingDirectory)
  IN  IF existsSync(cwd) THEN r
      ELSE RecordThrow(r, WorkingDirectoryMessage(cwd), time)

StartedCall(t) ==
  IF existsSync(ResolveCwd(t.workingDirectory))
  THEN SpawnedCall(ToMs(t.timeout))
  ELSE ThrownCall(ToMs(t.timeout))

\* The loop test of executeTask: no slot is free.
SlotsFullOffByOne(o, reg) == getRunningCount(o, reg) > maxConcurrent
SlotsFullEarly(o, reg) == getRunningCount(o, reg) + 1 >= maxConcurrent
SlotsFull(o, reg) == getRunningCount(o, reg) >= maxConcurrent

\* The test executeTask makes after each sleep and after the loop.
IsCancelledTypo(t) == t.status = "canceled"
IsCancelled(t) == t.status = "cancelled"

AdmitFifo(id, o, reg) ==
  IF SlotsFull(o, reg) \/ (\E j \in reg : j < id /\ o[j].status = "pending")
  THEN /\ obj' = o
       /\ pc' = [ pc EXCEPT ![id] = "sleeping" ]
       /\ exec' = exec
  ELSE IF IsCancelled(o[id])
  THEN /\ obj' = o
       /\ pc' = [ pc EXCEPT ![id] = "done" ]
       /\ exec' = exec
  ELSE /\ obj' = [ o EXCEPT ![id] = StartedTask(o[id], now) ]
       /\ exec' = [ exec EXCEPT ![id] = StartedCall(o[id]) ]
       /\ pc' = [ pc EXCEPT ![id] = IF exec'[id].state = "active"
                                     THEN "executing" ELSE "done" ]
\* executeTask from the loop test (line 695) to its next await or return.
\* o, reg: the objects and registry as they are when the test runs.
Admit(id, o, reg) ==
  IF SlotsFull(o, reg)
  THEN /\ obj' = o
       /\ pc' = [ pc EXCEPT ![id] = "sleeping" ]
       /\ exec' = exec
  ELSE IF IsCancelled(o[id])
  THEN /\ obj' = o
       /\ pc' = [ pc EXCEPT ![id] = "done" ]
       /\ exec' = exec
  ELSE /\ obj' = [ o EXCEPT ![id] = StartedTask(o[id], now) ]
       /\ exec' = [ exec EXCEPT ![id] = StartedCall(o[id]) ]
       /\ pc' = [ pc EXCEPT ![id] = IF exec'[id].state = "active"
                                     THEN "executing" ELSE "done" ]

\* A return value: a boolean (ok) or a number (n).
Return(ok, n) == [ ok |-> ok, n |-> n ]

\* The body of createTask(options): stores the record and runs executeTask(id)
\* up to its first await before returning the id.
StoreAndStart(options) ==
  /\ Cardinality(Created) < Cardinality(QueueIds)
  /\ LET id == Cardinality(Created) + 1
     IN  /\ tasks' = tasks \cup {id}
         /\ Admit(id, (id :> NewTask(id, options, now)) @@ obj, tasks \cup {id})
  /\ UNCHANGED <<maxConcurrent, now, ret, cancelledPending>>

\* createTask(options) called directly on the manager.
createTask(options) ==
  /\ Cardinality(Created) < Cardinality(Ids)
  /\ StoreAndStart(options)
  /\ UNCHANGED tool

\* The sleep(100) timer of a waiting routine fires.
PollWake(id) ==
  /\ id \in Created
  /\ pc[id] = "sleeping"
  /\ IF IsCancelled(obj[id])
     THEN /\ pc' = [ pc EXCEPT ![id] = "done" ]
          /\ UNCHANGED <<obj, exec>>
     ELSE Admit(id, obj, tasks)
  /\ UNCHANGED <<tool, maxConcurrent, ret, tasks, now, cancelledPending>>

\* Total number of output chunks received so far, over all calls.
ChunkCount == LET F[S \in SUBSET Ids] ==
                    IF S = {} THEN 0
                    ELSE LET i == CHOOSE x \in S : TRUE
                         IN  Len(exec[i].stdout) + Len(exec[i].stderr) + F[S \ {i}]
              IN  F[Ids]

ChildExists(c) == c.state \in {"active", "resolved"}

\* claude.stdout.on('data'): the chunk is appended to the call's buffer.
OnStdout(id, chunk) ==
  /\ ChildExists(exec[id]) /\ ~exec[id].closed
  /\ ChunkCount < MaxChunks
  /\ exec' = [ exec EXCEPT ![id].stdout = Append(@, chunk) ]
  /\ UNCHANGED <<tool, maxConcurrent, ret, tasks, obj, pc, now, cancelledPending>>

\* claude.stderr.on('data')
OnStderr(id, chunk) ==
  /\ ChildExists(exec[id]) /\ ~exec[id].closed
  /\ ChunkCount < MaxChunks
  /\ exec' = [ exec EXCEPT ![id].stderr = Append(@, chunk) ]
  /\ UNCHANGED <<tool, maxConcurrent, ret, tasks, obj, pc, now, cancelledPending>>

\* The setTimeout callback of the call: timedOut = true; claude.kill('SIGTERM').
TimeoutFire(id) ==
  /\ exec[id].timer = "armed"
  /\ exec' = [ exec EXCEPT ![id].timer = "fired",
                           ![id].timedOut = TRUE,
                           ![id].kills = @ + 1,
                           ![id].killedAfterResult = (exec[id].state = "resolved") ]
  /\ UNCHANGED <<tool, maxConcurrent, ret, tasks, obj, pc, now, cancelledPending>>

\* An event handler of the call built result r: the timer is cleared, the
\* promise resolved, and when this is the first resolution the awaiting
\* executeTask routine records the result.
Deliver(id, c, r) ==
  /\ exec' = [ exec EXCEPT ![id] = Resolve(ClearTimer(c), r) ]
  /\ IF c.state = "active"
     THEN /\ obj' = [ obj EXCEPT ![id] = RecordResult(@, r, now) ]
          /\ pc' = [ pc EXCEPT ![id] = "done" ]
     ELSE UNCHANGED <<obj, pc>>

\* claude.on('close', code)
OnClose(id, code) ==
  /\ ChildExists(exec[id]) /\ ~exec[id].closed
  /\ Deliver(id, [ exec[id] EXCEPT !.closed = TRUE ], CloseResult(exec[id], code))
  /\ UNCHANGED <<tool, maxConcurrent, ret, tasks, now, cancelledPending>>

\* claude.on('error', error)
OnError(id, msg) ==
  /\ ChildExists(exec[id]) /\ ~exec[id].errored
  /\ Deliver(id, [ exec[id] EXCEPT !.errored = TRUE ], ErrorResult(exec[id], msg))
  /\ UNCHANGED <<tool, maxConcurrent, ret, tasks, now, cancelledPending>>

\* cancelTask(id)
cancelTaskNoStamp(id) ==
  /\ IF id \in tasks /\ obj[id].status \in {"pending", "running"}
     THEN /\ obj' = [ obj EXCEPT ![id].status = "cancelled" ]
          /\ cancelledPending' = IF obj[id].status = "pending"
                                 THEN cancelledPending \cup {id}
                                 ELSE cancelledPending
          /\ ret' = Return(TRUE, 0)
     ELSE /\ UNCHANGED <<obj, cancelledPending>>
          /\ ret' = Return(FALSE, 0)
  /\ UNCHANGED <<tool, maxConcurrent, tasks, pc, exec, now>>
cancelTaskAnyStatus(id) ==
  /\ IF id \in tasks /\ obj[id].status # "cancelled"
     THEN /\ obj' = [ obj EXCEPT ![id].status = "cancelled",
                                 ![id].completedAt = Some(now) ]
          /\ cancelledPending' = IF obj[id].status = "pending"
                                 THEN cancelledPending \cup {id}
                                 ELSE cancelledPending
          /\ ret' = Return(TRUE, 0)
     ELSE /\ UNCHANGED <<obj, cancelledPending>>
          /\ ret' = Return(FALSE, 0)
  /\ UNCHANGED <<tool, maxConcurrent, tasks, pc, exec, now>>
cancelTaskStampCreated(id) ==
  /\ IF id \in tasks /\ obj[id].status \in {"pending", "running"}
     THEN /\ obj' = [ obj EXCEPT ![id].status = "cancelled",
                                 ![id].completedAt = Some(obj[id].createdAt) ]
          /\ cancelledPending' = IF obj[id].status = "pending"
                                 THEN cancelledPending \cup {id}
                                 ELSE cancelledPending
          /\ ret' = Return(TRUE, 0)
     ELSE /\ UNCHANGED <<obj, cancelledPending>>
          /\ ret' = Return(FALSE, 0)
  /\ UNCHANGED <<tool, maxConcurrent, tasks, pc, exec, now>>
cancelTaskKills(id) ==
  /\ IF id \in tasks /\ obj[id].status \in {"pending", "running"}
     THEN /\ obj' = [ obj EXCEPT ![id].status = "cancelled",
                                 ![id].completedAt = Some(now) ]
          /\ exec' = IF obj[id].status = "running"
                     THEN [ exec EXCEPT ![id] = [ ClearTimer(@) EXCEPT !.kills = @ + 1 ] ]
                     ELSE exec
          /\ cancelledPending' = IF obj[id].status = "pending"
                                 THEN cancelledPending \cup {id}
                                 ELSE cancelledPending
          /\ ret' = Return(TRUE, 0)
     ELSE /\ UNCHANGED <<obj, exec, cancelledPending>>
          /\ ret' = Return(FALSE, 0)
  /\ UNCHANGED <<tool, maxConcurrent, tasks, pc, now>>
cancelTask(id) ==
  /\ IF id \in tasks /\ obj[id].status \in {"pending", "running"}
     THEN /\ obj' = [ obj EXCEPT ![id].status = "cancelled",
                                 ![id].completedAt = Some(now) ]
          /\ cancelledPending' = IF obj[id].status = "pending"
                                 THEN cancelledPending \cup {id}
                                 ELSE cancelledPending
          /\ ret' = Return(TRUE, 0)
     ELSE /\ UNCHANGED <<obj, cancelledPending>>
          /\ ret' = Return(FALSE, 0)
  /\ UNCHANGED <<tool, maxConcurrent, tasks, pc, exec, now>>

\* Date.prototype.toISOString(): the text of a time stamp.
ToISOString(t) == ToString(t)

\* The TaskInfo snapshot getTask and listTasks build from a Task.
TaskInfo(t) ==
  [ id |-> t.id,
    workingDirectory |-> t.workingDirectory,
    status |-> t.status,
    createdAt |-> ToISOString(t.createdAt),
    startedAt |-> IF IsSome(t.startedAt) THEN Some(ToISOString(Get(t.startedAt))) ELSE None,
    completedAt |-> IF IsSome(t.completedAt) THEN Some(ToISOString(Get(t.completedAt))) ELSE None,
    error |-> t.error,
    success |-> IF IsSome(t.result) THEN Some(Get(t.result).success) ELSE None,
    exitCode |-> IF IsSome(t.result) THEN Some(Get(t.result).exitCode) ELSE None ]

\* getTask(id): null (None) when the Map has no such key.
getTask(id) == IF id \in tasks THEN Some(TaskInfo(obj[id])) ELSE None

\* getTaskResult(id)
getTaskResultSwapped(id) ==
  IF id \in tasks
  THEN Some([ taskInfo |-> Get(getTask(id)),
              stdout |-> IF IsSome(obj[id].result) THEN Some(Get(obj[id].result).stderr) ELSE None,
              stderr |-> IF IsSome(obj[id].result) THEN Some(Get(obj[id].result).stdout) ELSE None ])
  ELSE None
getTaskResult(id) ==
  IF id \in tasks
  THEN Some([ taskInfo |-> Get(getTask(id)),
              stdout |-> IF IsSome(obj[id].result) THEN Some(Get(obj[id].result).stdout) ELSE None,
              stderr |-> IF IsSome(obj[id].result) THEN Some(Get(obj[id].result).stderr) ELSE None ])
  ELSE None

\* deleteTask(id): Map.delete
deleteTaskOnlyTerminal(id) ==
  /\ tasks' = IF id \in tasks /\ obj[id].status \in Terminal THEN tasks \ {id} ELSE tasks
  /\ ret' = Return(id \in tasks /\ obj[id].status \in Terminal, 0)
  /\ UNCHANGED <<tool, maxConcurrent, obj, pc, exec, now, cancelledPending>>
deleteTask(id) ==
  /\ tasks' = tasks \ {id}
  /\ ret' = Return(id \in tasks, 0)
  /\ UNCHANGED <<tool, maxConcurrent, obj, pc, exec, now, cancelledPending>>

\* The records cleanup(olderThanMs) deletes.
ExpiredInclusive(olderThanMs) ==
  { i \in tasks : /\ obj[i].status \in Terminal
                  /\ IsSome(obj[i].completedAt)
                  /\ now - Get(obj[i].completedAt) >= olderThanMs }
Expired(olderThanMs) ==
  { i \in tasks : /\ obj[i].status \in Terminal
                  /\ IsSome(obj[i].completedAt)
                  /\ now - Get(obj[i].completedAt) > olderThanMs }

\* cleanup(olderThanMs)
cleanup(olderThanMs) ==
  /\ tasks' = tasks \ Expired(olderThanMs)
  /\ ret' = Return(TRUE, Cardinality(Expired(olderThanMs)))
  /\ UNCHANGED <<tool, maxConcurrent, obj, pc, exec, now, cancelledPending>>

\* No tool has been called yet.
NoTool ==
  [ name |-> "none", input |-> None, isError |-> FALSE, text |-> <<>>,
    listed |-> <<>>, call |-> NoCall, argv |-> <<>> ]

\* Time passes.
Tick ==
  /\ now < MaxClock
  /\ now' = now + 1
  /\ UNCHANGED <<tool, maxConcurrent, ret, tasks, obj, pc, exec, cancelledPending>>

Init ==
  /\ maxConcurrent \in 1..MaxConcurrentBound
  /\ tasks = {}
  /\ obj = <<>>
  /\ pc = [ i \in QueueIds |-> "none" ]
  /\ exec = [ i \in QueueIds |-> NoCall ]
  /\ now = 0
  /\ ret = Return(TRUE, 0)
  /\ cancelledPending = {}
  /\ tool = NoTool

\* The task manager with its executor calls: every API call and callback
\* that decides a task's status.  The clock stands still, children are silent,
\* and the events of a child are followed up to the one that settles its call
\* (a later event changes nothing in the manager).
Next ==
  \/ \E options \in CreateOptions : createTask(options)
  \/ \E id \in Ids : PollWake(id)
  \/ \E id \in Ids : TimeoutFire(id)
  \/ \E id \in Ids, code \in ExitCodes : exec[id].state = "active" /\ OnClose(id, code)
  \/ \E id \in Ids, msg \in ErrorMessages : exec[id].state = "active" /\ OnError(id, msg)
  \/ \E id \in Ids : cancelTask(id)
  \/ \E id \in Ids : deleteTask(id)

Spec == Init /\ [][Next]_vars

\* The scheduling the event loop and the operating system provide: an armed
\* timer fires unless it is cleared first, a sleeping routine wakes, and a
\* child that was sent SIGTERM closes.
Fairness ==
  \A id \in Ids :
     /\ WF_vars(PollWake(id))
     /\ WF_vars(TimeoutFire(id))
     /\ WF_vars(exec[id].kills > 0 /\ \E code \in ExitCodes : OnClose(id, code))

\* A manager constructed with a single slot, new TaskManager(1): every task
\* created while another runs has to queue.
SingleSlotInit == Init /\ maxConcurrent = 1

FairSpec == SingleSlotInit /\ [][Next]_vars /\ Fairness

\* The single-slot manager with a running clock: the calls and callbacks that
\* write a record's status and timestamps, interleaved with the passing of
\* time.  Records stay in the registry and no call outlives its timeout.
TimeNext ==
  \/ \E options \in CreateOptions : createTask(options)
  \/ \E id \in Ids : PollWake(id)
  \/ \E id \in Ids, code \in ExitCodes : exec[id].state = "active" /\ OnClose(id, code)
  \/ \E id \in Ids, msg \in ErrorMessages : exec[id].state = "active" /\ OnError(id, msg)
  \/ \E id \in Ids : cancelTask(id)
  \/ Tick

TimeSpec == SingleSlotInit /\ [][TimeNext]_vars

\* getStats(): total is the size of the Map; the loop over the Map's values
\* adds one to the counter named by each record's status.
StatsStart ==
  [ total |-> Cardinality(tasks), pending |-> 0, running |-> 0, completed |-> 0,
    failed |-> 0, cancelled |-> 0 ]

BumpNotCancelled(stats, status) ==
  IF status = "cancelled" THEN stats ELSE [ stats EXCEPT ![status] = @ + 1 ]
Bump(stats, status) == [ stats EXCEPT ![status] = @ + 1 ]

getStats ==
  LET Loop[S \in SUBSET tasks] ==
        IF S = {} THEN StatsStart
        ELSE LET i == CHOOSE x \in S : TRUE
             IN  Bump(Loop[S \ {i}], obj[i].status)
  IN  Loop[tasks]

\* createTask({ task }) with every optional field left out.
DefaultOptions == [ workingDirectory |-> None, timeout |-> None ]

\* More tasks than slots, each with a child that prints, exits with code 0
\* before its timeout and is neither cancelled nor deleted.
BatchInit == Init /\ maxConcurrent < MaxTasks

BatchNext ==
  \/ createTask(DefaultOptions)
  \/ \E id \in Ids : PollWake(id)
  \/ \E id \in Ids, chunk \in Chunks : OnStdout(id, chunk)
  \/ \E id \in Ids, chunk \in Chunks : OnStderr(id, chunk)
  \/ \E id \in Ids : exec[id].state = "active" /\ OnClose(id, 0)
  \/ Tick

\* The caller creates all its tasks, sleeping routines wake and children exit.
BatchFairness ==
  /\ WF_vars(createTask(DefaultOptions))
  /\ \A id \in Ids :
        /\ WF_vars(PollWake(id))
        /\ WF_vars(exec[id].state = "active" /\ OnClose(id, 0))

BatchSpec == BatchInit /\ [][BatchNext]_vars /\ BatchFairness

\* The executor seen through the single-slot manager: children print, time
\* out, close and fail in every order, and events keep arriving after the
\* one that settled the call.  Nothing is cancelled or deleted.
ExecNext ==
  \/ \E options \in CreateOptions : createTask(options)
  \/ \E id \in Ids : PollWake(id)
  \/ \E id \in Ids, chunk \in Chunks : OnStdout(id, chunk)
  \/ \E id \in Ids, chunk \in Chunks : OnStderr(id, chunk)
  \/ \E id \in Ids : TimeoutFire(id)
  \/ \E id \in Ids, code \in ExitCodes : OnClose(id, code)
  \/ \E id \in Ids, msg \in ExecErrorMessages : OnError(id, msg)

ExecSpec == SingleSlotInit /\ [][ExecNext]_vars

\* The single-slot manager with a running clock and a periodic cleanup: tasks
\* are created with default options, run, end or are cancelled, and cleanup is called with every
\* age threshold the clock can tell apart.
CleanupAges == 0..MaxClock

CleanNext ==
  \/ createTask(DefaultOptions)
  \/ \E id \in Ids : PollWake(id)
  \/ \E id \in Ids, code \in ExitCodes : exec[id].state = "active" /\ OnClose(id, code)
  \/ \E id \in Ids : cancelTask(id)
  \/ \E olderThanMs \in CleanupAges : cleanup(olderThanMs)
  \/ Tick

CleanSpec == SingleSlotInit /\ [][CleanNext]_vars

\* The single-slot manager with tasks created with default options, while
\* the caller cancels and deletes tasks at will and the clock runs; every
\* child exits with code 0.
WaitNext ==
  \/ createTask(DefaultOptions)
  \/ \E id \in Ids : PollWake(id)
  \/ \E id \in Ids : exec[id].state = "active" /\ OnClose(id, 0)
  \/ \E id \in Ids : cancelTask(id)
  \/ \E id \in Ids : deleteTask(id)
  \/ Tick

\* The sleep(100) timer of a waiting routine fires, and every executor call
\* returns.
WaitFairness ==
  \A id \in Ids :
     /\ WF_vars(PollWake(id))
     /\ WF_vars(exec[id].state = "active" /\ OnClose(id, 0))

WaitSpec == SingleSlotInit /\ [][WaitNext]_vars /\ WaitFairness

\* ------------------------------------------------------------- tools
\* Inputs of the execute-task and create-task tools.  The two schemas have the
\* same shape: task (required), workingDirectory, timeout, additionalArgs.
OtherDir == "/repo"
TaskTexts == {"fix the tests"}
ArgLists ==
  { <<>>,
    <<"-p", "--print", "-y", "--model">>,
    <<"--yes", "-n", "opus", "--no">>,
    <<"--no-yes", "--cache", "--ignore-existing">> }
TimeoutInputs == { None, Some(0), Some(1), Some(MaxTimeout), Some(MaxTimeout + 1) }
ToolInputs ==
  [ task : {None} \cup { Some(t) : t \in TaskTexts },
    workingDirectory : { None, Some(OtherDir), Some(MissingDir) },
    timeout : TimeoutInputs,
    additionalArgs : {None} \cup { Some(a) : a \in ArgLists } ]

\* schema.safeParse(input).success: task is a string, timeout (when given) is
\* a number from 1 to 3600.
SchemaOkNoMax(input) ==
  /\ IsSome(input.task)
  /\ IsSome(input.timeout) => Get(input.timeout) >= 1
SchemaOk(input) ==
  /\ IsSome(input.task)
  /\ IsSome(input.timeout) =>
        (Get(input.timeout) >= 1 /\ Get(input.timeout) <= MaxTimeout)

InvalidInputMessage == <<"Invalid input:">>

\* formatErrorMessage(error) for an McpServerError: "[code] message".
formatErrorMessage(code, msg) == <<"[" \o code \o "]">> \o msg

\* createErrorResponse(error): the message as text, isError true.
createErrorResponse(name, input, msg) ==
  [ NoTool EXCEPT !.name = name, !.input = Some(input), !.isError = TRUE, !.text = msg ]

\* The deny list of buildCliArgs.
invalidArgs ==
  { "-p", "--print", "-y", "--yes", "-n", "--no", "--no-yes", "--cache",
    "--ignore-existing" }

\* buildCliArgs(task, workingDirectory, additionalArgs)
buildCliArgsPrintOnly(task, workingDirectory, additionalArgs) ==
  [ args |-> <<"--add-dir", workingDirectory>>
               \o SelectSeq(additionalArgs, LAMBDA arg : arg \notin {"-p", "--print"})
               \o <<"-p", task>>,
    cwd |-> workingDirectory ]
buildCliArgs(task, workingDirectory, additionalArgs) ==
  [ args |-> <<"--add-dir", workingDirectory>>
               \o SelectSeq(additionalArgs, LAMBDA arg : arg \notin invalidArgs)
               \o <<"-p", task>>,
    cwd |-> workingDirectory ]

\* The execute-task tool up to the await of its executor call.  The model
\* follows one execute-task call at a time.
executeTaskTool(input) ==
  /\ tool.call.state # "active"
  /\ IF ~SchemaOk(input)
     THEN tool' = createErrorResponse("execute-task", input, InvalidInputMessage)
     ELSE LET cwd == ResolveCwd(input.workingDirectory)
              ms == ToMs(IF IsSome(input.timeout) THEN Get(input.timeout) ELSE DefaultTimeout)
              extra == IF IsSome(input.additionalArgs) THEN Get(input.additionalArgs) ELSE <<>>
          IN  IF ~existsSync(cwd)
              THEN tool' = [ createErrorResponse("execute-task", input,
                                formatErrorMessage("INVALID_WORKING_DIRECTORY",
                                                   WorkingDirectoryMessage(cwd)))
                             EXCEPT !.call = ThrownCall(ms) ]
              ELSE tool' = [ NoTool EXCEPT
                               !.name = "execute-task",
                               !.input = Some(input),
                               !.call = SpawnedCall(ms),
                               !.argv = buildCliArgs(Get(input.task), cwd, extra).args ]
  /\ UNCHANGED <<maxConcurrent, tasks, obj, pc, exec, now, ret, cancelledPending>>

\* The response of execute-task once its call returned result r.
ExecuteTaskResponse(r) ==
  IF r.success
  THEN <<"## Task Completed Successfully">>
  ELSE <<"## Task Execution Failed">> \o (IF IsSome(r.error) THEN Get(r.error) ELSE <<>>)

\* An event handler of the tool's executor call built result r.
ToolDeliver(c, r) ==
  /\ tool' = [ tool EXCEPT !.call = Resolve(ClearTimer(c), r),
                           !.isError = IF c.state = "active" THEN ~r.success ELSE @,
                           !.text = IF c.state = "active" THEN ExecuteTaskResponse(r) ELSE @ ]
  /\ UNCHANGED <<maxConcurrent, tasks, obj, pc, exec, now, ret, cancelledPending>>

\* The timer, 'close' and 'error' callbacks of the tool's executor call.
ToolTimeoutFire ==
  /\ tool.call.timer = "armed"
  /\ tool' = [ tool EXCEPT !.call.timer = "fired", !.call.timedOut = TRUE,
                           !.call.kills = @ + 1,
                           !.call.killedAfterResult = (tool.call.state = "resolved") ]
  /\ UNCHANGED <<maxConcurrent, tasks, obj, pc, exec, now, ret, cancelledPending>>

ToolOnClose(code) ==
  /\ ChildExists(tool.call) /\ ~tool.call.closed
  /\ ToolDeliver([ tool.call EXCEPT !.closed = TRUE ], CloseResult(tool.call, code))

ToolOnError(msg) ==
  /\ ChildExists(tool.call) /\ ~tool.call.errored
  /\ ToolDeliver([ tool.call EXCEPT !.errored = TRUE ], ErrorResult(tool.call, msg))

\* The options the create-task tool hands to createTask.
ToCreateOptions(input) ==
  [ workingDirectory |-> input.workingDirectory, timeout |-> input.timeout ]

\* The create-task tool: parse, createTask, report the id.
createTaskTool(input) ==
  IF ~SchemaOk(input)
  THEN /\ tool' = createErrorResponse("create-task", input, InvalidInputMessage)
       /\ UNCHANGED <<maxConcurrent, tasks, obj, pc, exec, now, ret, cancelledPending>>
  ELSE /\ StoreAndStart(ToCreateOptions(input))
       /\ tool' = [ NoTool EXCEPT !.name = "create-task",
                                  !.input = Some(input),
                                  !.text = <<"## Task Created", ToString(Cardinality(Created) + 1),
                                             "Status: pending">> ]

\* listTasks(): the TaskInfo of every record, in the Map's insertion order,
\* which is the order of creation.
RECURSIVE InsertionOrder(_)
InsertionOrder(S) ==
  IF S = {} THEN <<>>
  ELSE LET first == CHOOSE i \in S : \A j \in S : i <= j
       IN  <<first>> \o InsertionOrder(S \ {first})

listTasks ==
  LET order == InsertionOrder(tasks)
  IN  [ k \in 1..Len(order) |-> TaskInfo(obj[order[k]]) ]

\* Array.prototype.slice(0, end)
Slice(seq, end) ==
  LET stop == IF end < 0 THEN (IF Len(seq) + end < 0 THEN 0 ELSE Len(seq) + end)
              ELSE (IF end > Len(seq) THEN Len(seq) ELSE end)
  IN  SubSeq(seq, 1, stop)

\* Inputs of the list-tasks tool: an optional status filter and an optional
\* limit, any number.
ListInputs ==
  [ status : { None, Some("running"), Some("completed") },
    limit : { None, Some(0), Some(1), Some(2) } ]

\* The list-tasks tool: listTasks(), the status filter, then the limit when
\* it is given and not zero (if (limit)).
listTasksTool(input) ==
  /\ LET all == listTasks
         filtered == IF IsSome(input.status)
                     THEN SelectSeq(all, LAMBDA t : t.status = Get(input.status))
                     ELSE all
         shown == IF IsSome(input.limit) /\ Get(input.limit) # 0
                  THEN Slice(filtered, Get(input.limit))
                  ELSE filtered
     IN  tool' = [ NoTool EXCEPT
                     !.name = "list-tasks",
                     !.input = Some(input),
                     !.text = IF Len(shown) = 0
                              THEN <<"## No Tasks Found">>
                              ELSE <<"## Tasks", ToString(Len(shown)), "shown">>,
                     !.listed = [ k \in 1..Len(shown) |-> shown[k].id ] ]
  /\ UNCHANGED <<maxConcurrent, tasks, obj, pc, exec, now, ret, cancelledPending>>

\* create-task called with a task text and nothing else.
DefaultInput ==
  [ task |-> Some("fix the tests"), workingDirectory |-> None, timeout |-> None,
    additionalArgs |-> None ]

\* The queue seen through the tools: tasks are created with default options,
\* wait for a slot, run and complete, and list-tasks is called in between.
QueueNext ==
  \/ createTaskTool(DefaultInput)
  \/ \E id \in QueueIds : PollWake(id)
  \/ \E id \in QueueIds : exec[id].state = "active" /\ OnClose(id, 0)
  \/ \E input \in ListInputs : listTasksTool(input)

QueueSpec == Init /\ [][QueueNext]_vars

\* The two tools that start work, called with every kind of input on a
\* manager without tasks; the executor call of execute-task runs to its end,
\* the task of create-task is left as createTask leaves it.
ToolNext ==
  \/ \E input \in ToolInputs : executeTaskTool(input)
  \/ ToolTimeoutFire
  \/ \E code \in ExitCodes : ToolOnClose(code)
  \/ \E msg \in ErrorMessages : ToolOnError(msg)
  \/ \E input \in ToolInputs : Created = {} /\ createTaskTool(input)

ToolSpec == SingleSlotInit /\ [][ToolNext]_vars

\* ------------------------------------------------------------- claims

\* C1: with maxConcurrent = N, in every reachable state at most N records of
\* the registry have status 'running'.
C1_RunningAtMostMax ==
  Cardinality({ id \in tasks : obj[id].status = "running" }) <= maxConcurrent

\* C1 witness: every slot is taken while another task waits in the poll loop.
C1_Witness ==
  /\ Cardinality({ id \in tasks : obj[id].status = "running" }) = maxConcurrent
  /\ \E id \in tasks : obj[id].status = "pending" /\ pc[id] = "sleeping"

\* C2 (as claimed): a task whose status is completed, failed or cancelled
\* never changes status again, and the other statuses only move along
\* pending -> running -> terminal or pending -> cancelled.
C2_TerminalIsFinal ==
  [][ \A id \in Created :
        LET old == obj[id].status
            new == obj'[id].status
        IN  new # old =>
              \/ old = "pending" /\ new \in {"running", "cancelled", "failed"}
              \/ old = "running" /\ new \in Terminal ]_vars

\* C3: once cancelTask returned true for a pending task, the executor is never
\* invoked for it and it never becomes 'running'.
C3_CancelledPendingNeverSpawns ==
  \A id \in cancelledPending :
     /\ exec[id].state = "none"
     /\ obj[id].status = "cancelled"
     /\ obj[id].startedAt = None

\* C3 witness: a task cancelled while queued woke up with a slot free and
\* its routine returned.
C3_Witness ==
  \E id \in cancelledPending :
     /\ pc[id] = "done"
     /\ Cardinality({ i \in tasks : obj[i].status = "running" }) < maxConcurrent

\* C4: every task that enters 'running' eventually has a terminal status.
C4_RunningReachesTerminal ==
  \A id \in Ids :
     (id \in Created /\ obj[id].status = "running")
        ~> (id \in Created /\ obj[id].status \in Terminal)

\* C4 witness: a task that ran has its executor call resolved and a terminal
\* status recorded by its routine.
C4_Witness ==
  \E id \in Created :
     /\ exec[id].state = "resolved" /\ pc[id] = "done"
     /\ obj[id].status \in Terminal /\ IsSome(obj[id].startedAt)

\* C5 (as claimed): once the timer of a call has fired, the call's result is a
\* failure carrying the timeout message, whatever event produced it, and
\* the task is never recorded 'completed'.
C5_TimeoutWins ==
  \A id \in Created :
     (exec[id].timedOut /\ IsSome(exec[id].result)) =>
        /\ Get(exec[id].result).success = FALSE
        /\ Get(exec[id].result).error = Some(TimeoutMessage(exec[id].timeoutMs))
        /\ obj[id].status = "failed"

\* C6 (as claimed): a task whose child was still running when the timeout
\* elapsed ends 'failed' with the timeout message and is never 'completed'.
C6_TimedOutTaskFailsWithTimeoutMessage ==
  \A id \in Created :
     exec[id].timedOut =>
        /\ obj[id].status # "completed"
        /\ pc[id] = "done" =>
              /\ obj[id].status = "failed"
              /\ obj[id].error = Some(TimeoutMessage(ToMs(obj[id].timeout)))

\* C7 (as claimed): every record in the registry has timeout <= 3600.
C7_TimeoutBounded ==
  \A id \in tasks : obj[id].timeout <= MaxTimeout

\* C8: cancelTask(id) returns true exactly when a record with that id exists
\* and is pending or running; then the record is 'cancelled' with completedAt
\* set right after the call.
C8_CancelReturnsTrueIffActive ==
  [][ \A id \in Ids :
        cancelTask(id) =>
          /\ ret'.ok <=> (id \in tasks /\ obj[id].status \in {"pending", "running"})
          /\ ret'.ok => /\ id \in tasks'
                        /\ obj'[id].status = "cancelled"
                        /\ IsSome(obj'[id].completedAt) ]_vars

\* C8 witness: a pending or running record was cancelled by a call that
\* returned true.
C8_Witness ==
  /\ ret.ok
  /\ \E id \in tasks : obj[id].status = "cancelled" /\ IsSome(obj[id].completedAt)

\* C9: cancelTask on a terminal task or an unknown id returns false and leaves
\* every field of every record unchanged.
C9_CancelTerminalIsNoOp ==
  [][ \A id \in Ids :
        (cancelTask(id) /\ (id \notin tasks \/ obj[id].status \in Terminal)) =>
          /\ ret'.ok = FALSE
          /\ obj' = obj
          /\ tasks' = tasks ]_vars

\* C9 witness: a cancel call returned false while the registry holds a
\* completed task with its result.
C9_Witness ==
  /\ ret.ok = FALSE
  /\ \E id \in tasks : obj[id].status = "completed" /\ IsSome(obj[id].completedAt)

\* C10: a record carries a result payload only if its status is 'completed'
\* or 'failed'.
C10_ResultOnlyWhenFinished ==
  \A id \in Created :
     IsSome(obj[id].result) => obj[id].status \in {"completed", "failed"}

\* C10 witness: a task cancelled while running whose executor call returned
\* afterwards holds a result.
C10_Witness ==
  \E id \in tasks :
     /\ IsSome(obj[id].result)
     /\ obj[id].completedAt # None
     /\ exec[id].state = "resolved"
     /\ \E other \in Created : obj[other].status = "cancelled" /\ obj[other].result = None

\* C11 (as claimed): completedAt is written at most once, and only in the step
\* that takes the status from a non-terminal to a terminal one.
C11_CompletedAtWrittenOnce ==
  [][ \A id \in Created :
        obj'[id].completedAt # obj[id].completedAt =>
          /\ obj[id].completedAt = None
          /\ obj[id].status \notin Terminal
          /\ obj'[id].status \in Terminal ]_vars

\* C12: startedAt is written at most once, only in the step that takes the
\* task from 'pending' to 'running' (a call that throws ends that same step
\* 'failed'), and a task cancelled while pending never gets one.
C12_StartedAtWrittenOnce ==
  [][ /\ \A id \in DOMAIN obj' :
           LET old == IF id \in Created THEN obj[id].startedAt ELSE None
           IN  obj'[id].startedAt # old =>
                 /\ old = None
                 /\ id \in Created => obj[id].status = "pending"
                 /\ exec[id].state = "none"
                 /\ \/ exec'[id].state = "active" /\ obj'[id].status = "running"
                    \/ exec'[id].state = "threw" /\ obj'[id].status = "failed"
                 /\ obj'[id].startedAt = Some(now)
      /\ \A id \in cancelledPending' : obj'[id].startedAt = None ]_vars

\* C12 witness: a task that waited for the slot is running, started later
\* than it was created.
C12_Witness ==
  \E id \in Created :
     /\ obj[id].status = "running"
     /\ IsSome(obj[id].startedAt) /\ Get(obj[id].startedAt) > obj[id].createdAt

\* C13: createdAt <= startedAt whenever startedAt is set, and
\* startedAt <= completedAt whenever both are set.
C13_TimestampsOrdered ==
  \A id \in Created :
     /\ IsSome(obj[id].startedAt) => obj[id].createdAt <= Get(obj[id].startedAt)
     /\ (IsSome(obj[id].startedAt) /\ IsSome(obj[id].completedAt)) =>
           Get(obj[id].startedAt) <= Get(obj[id].completedAt)

\* C13 witness: a task that waited, ran and finished at a later time than it
\* was created.
C13_Witness ==
  \E id \in Created :
     /\ pc[id] = "done" /\ IsSome(obj[id].startedAt) /\ IsSome(obj[id].completedAt)
     /\ obj[id].createdAt < Get(obj[id].completedAt)
     /\ id > 1

\* C14: when M tasks are created on a manager with fewer than M slots, every
\* call succeeds and nothing is cancelled or deleted, getStats() eventually
\* reports total = completed = M and zero elsewhere, and stays so.
C14_BatchCompletes ==
  <>[](getStats = [ total |-> MaxTasks, pending |-> 0, running |-> 0,
                    completed |-> MaxTasks, failed |-> 0, cancelled |-> 0 ])

\* C14 witness: all tasks are completed and the last one had to wait for
\* the slot.
C14_Witness ==
  /\ getStats.total = MaxTasks /\ getStats.completed = MaxTasks
  /\ \E id \in tasks : Get(obj[id].startedAt) > obj[id].createdAt

\* C15: deleteTask(id) returns true exactly when a record with that id exists,
\* whatever its status; afterwards getTask(id) and getTaskResult(id) return
\* not-found and no later step brings the record back; on an unknown id it
\* returns false and the registry is unchanged.
C15_DeleteRemovesForGood ==
  [][ /\ \A id \in Ids :
           deleteTask(id) =>
             /\ ret'.ok <=> id \in tasks
             /\ getTask(id)' = None
             /\ getTaskResult(id)' = None
             /\ id \notin tasks => (tasks' = tasks /\ obj' = obj)
      /\ \A id \in Created : id \notin tasks => id \notin tasks' ]_vars

\* C15 witness: a record deleted while its task was running; the routine
\* finished afterwards and the lookups still return not-found.
C15_Witness ==
  \E id \in Created :
     /\ id \notin tasks /\ ret.ok
     /\ pc[id] = "done" /\ IsSome(obj[id].result)
     /\ getTask(id) = None /\ getTaskResult(id) = None

\* C16: getTaskResult(id) has no stdout and no stderr while the task is
\* 'pending' or 'running'; for a 'completed' task it returns exactly the
\* stdout and stderr of the result its executor call returned, which are
\* the chunks the child printed.
C16_ResultOutput ==
  \A id \in tasks :
     LET r == Get(getTaskResult(id))
     IN  /\ obj[id].status \in {"pending", "running"} =>
               (r.stdout = None /\ r.stderr = None)
         /\ obj[id].status = "completed" =>
               /\ IsSome(exec[id].result)
               /\ r.stdout = Some(Get(exec[id].result).stdout)
               /\ r.stderr = Some(Get(exec[id].result).stderr)
               /\ r.stdout = Some(exec[id].stdout)
               /\ r.stderr = Some(exec[id].stderr)

\* C16 witness: a completed task whose child printed on stdout only, while
\* another task still waits in the queue.
C16_Witness ==
  /\ \E id \in tasks :
        /\ obj[id].status = "completed"
        /\ Get(getTaskResult(id)).stdout # Some(<<>>)
        /\ Get(getTaskResult(id)).stderr = Some(<<>>)
  /\ \E id \in tasks : obj[id].status = "pending"

\* C17: for every call that produced a result, success is true exactly when
\* the result comes from a close with exit code 0 and the timer of the call
\* did not fire.
C17_SuccessIffZeroAndNoTimeout ==
  \A id \in Created :
     IsSome(exec[id].result) =>
        ( Get(exec[id].result).success <=>
            /\ exec[id].closed
            /\ Get(exec[id].result).exitCode = 0
            /\ ~exec[id].timedOut )

\* C17 witness: the timer fired and the child then closed with exit code 0;
\* the result is a failure.
C17_Witness ==
  \E id \in Created :
     /\ IsSome(exec[id].result)
     /\ exec[id].timedOut
     /\ Get(exec[id].result).exitCode = 0
     /\ ~Get(exec[id].result).success

\* C18: the executor call raises exactly when the resolved working directory
\* does not exist, and then no child is spawned and no timer started; a call
\* that spawned its child ends with a result and is never raised.
C18_ThrowsOnlyOnMissingDirectory ==
  \A id \in Created :
     /\ exec[id].state = "threw" <=>
           /\ IsSome(obj[id].startedAt)
           /\ ~existsSync(ResolveCwd(obj[id].workingDirectory))
     /\ exec[id].state = "threw" =>
           /\ exec[id].timer = "none" /\ exec[id].kills = 0
           /\ ~exec[id].closed /\ ~exec[id].errored
           /\ exec[id].stdout = <<>> /\ exec[id].stderr = <<>>
           /\ exec[id].result = None
     /\ (exec[id].closed \/ exec[id].errored \/ exec[id].timedOut) =>
           /\ exec[id].state = "resolved" \/ exec[id].state = "active"
           /\ exec[id].state = "resolved" => IsSome(exec[id].result)

\* C18 witness: one call threw on its missing directory and another,
\* spawned, call returned a failure.
C18_Witness ==
  /\ \E id \in Created :
        /\ exec[id].state = "threw"
        /\ obj[id].error = Some(WorkingDirectoryMessage(MissingDir))
  /\ \E id \in Created :
        exec[id].state = "resolved" /\ ~Get(exec[id].result).success

\* C19: an 'error' event that settles a call yields a failed result with
\* exit code null, whose error is the fixed CLI-not-found text when the
\* message reports a missing executable and the message itself otherwise.
C19_ErrorEventResult ==
  [][ \A id \in Ids, msg \in ExecErrorMessages :
        (exec[id].state = "active" /\ OnError(id, msg)) =>
          LET r == Get(exec'[id].result)
          IN  /\ exec'[id].state = "resolved"
              /\ r.success = FALSE
              /\ r.exitCode = NullCode
              /\ r.error = Some(IF msg \in NotFoundMessages
                                THEN CliNotFoundMessage ELSE msg)
              /\ obj'[id].status = "failed"
              /\ obj'[id].error = r.error ]_vars

\* C19 witness: one task failed with the CLI-not-found text.
C19_Witness ==
  \E id \in Created :
     /\ exec[id].errored /\ ~exec[id].closed
     /\ obj[id].status = "failed"
     /\ obj[id].error = Some(CliNotFoundMessage)

\* C20 (as claimed): every result carries as stdout and stderr all the
\* chunks received before the result was produced.
C20_ResultCarriesOutput ==
  [][ \A id \in Ids :
        (exec[id].state = "active" /\ exec'[id].state = "resolved") =>
          /\ Get(exec'[id].result).stdout = exec[id].stdout
          /\ Get(exec'[id].result).stderr = exec[id].stderr ]_vars

C24_InvalidInputStopsAtTool ==
  LET input == Get(tool.input)
      invalid == \/ ~IsSome(input.task)
                 \/ /\ IsSome(input.timeout)
                    /\ (Get(input.timeout) < 1 \/ Get(input.timeout) > 3600)
  IN  (tool.name \in {"create-task", "execute-task"} /\ invalid) =>
         /\ tool.isError
         /\ tool.call = NoCall /\ tool.argv = <<>>
         /\ tool.name = "create-task" =>
               /\ tasks = {} /\ Created = {}
               /\ \A id \in QueueIds : exec[id] = NoCall /\ pc[id] = "none"

\* C24 witness: create-task was called with a task text and a timeout of
\* 3601 seconds and answered with an error.
C24_Witness ==
  /\ tool.name = "create-task"
  /\ IsSome(Get(tool.input).task)
  /\ Get(tool.input).timeout = Some(3601)
  /\ tool.isError /\ tasks = {}

\* C22: getStats() returns as total the number of records in the registry and
\* as each per-status count the number of records with that status, so the
\* five counts add up to total; its running count is the count admission
\* control uses.
C22_StatsConsistent ==
  LET stats == getStats
      Records(st) == { id \in tasks : obj[id].status = st }
  IN  /\ stats.total = Cardinality(tasks)
      /\ \A st \in {"pending", "running", "completed", "failed", "cancelled"} :
            stats[st] = Cardinality(Records(st))
      /\ stats.pending + stats.running + stats.completed + stats.failed
           + stats.cancelled = stats.total
      /\ stats.running = getRunningCount(obj, tasks)

\* C22 witness: cleanup removed one record; a cancelled record is all that
\* is left.
C22_Witness ==
  /\ Cardinality(Created) = 2 /\ Cardinality(tasks) = 1
  /\ \E id \in tasks : obj[id].status = "cancelled"
  /\ \E id \in Created \ tasks : obj[id].status = "failed"
  /\ getStats.total = 1 /\ getStats.cancelled = 1

\* C23: cleanup(maxAgeMs) removes exactly the records that are terminal and
\* whose completedAt is more than maxAgeMs before now, returns how many it
\* removed, and leaves every other record, and every task object, as it was.
C23_CleanupRemovesOldTerminal ==
  [][ \A maxAgeMs \in CleanupAges :
        cleanup(maxAgeMs) =>
          LET old == { id \in tasks :
                         /\ obj[id].status \in {"completed", "failed", "cancelled"}
                         /\ now - Get(obj[id].completedAt) > maxAgeMs }
          IN  /\ tasks' = tasks \ old
              /\ ret'.n = Cardinality(old)
              /\ \A id \in tasks :
                    obj[id].status \in {"pending", "running"} => id \in tasks'
              /\ obj' = obj /\ pc' = pc /\ exec' = exec ]_vars

\* C23 witness: a cleanup call returned 1 and left in the registry a terminal
\* record whose age equals a threshold that removes nothing.
C23_Witness ==
  /\ ret.n = 1
  /\ Cardinality(Created) = 2 /\ Cardinality(tasks) = 1
  /\ \E id \in tasks :
        /\ obj[id].status \in Terminal
        /\ now - Get(obj[id].completedAt) = 0

\* C25 (as claimed): list-tasks returns at most `limit` tasks, and at most 50
\* when no limit is given.
C25_ListAtMostLimit ==
  tool.name = "list-tasks" =>
     Len(tool.listed) <= (IF IsSome(Get(tool.input).limit)
                          THEN Get(Get(tool.input).limit) ELSE 50)

\* C26: cancelTask on a 'running' task writes that record's status and
\* completedAt and nothing else: the child gets no signal, the executor call
\* goes on and its timer stays armed.
C26_CancelRunningIsAdvisory ==
  [][ \A id \in Ids :
        (cancelTask(id) /\ id \in tasks /\ obj[id].status = "running") =>
          /\ obj' = [ obj EXCEPT ![id].status = "cancelled",
                                 ![id].completedAt = Some(now) ]
          /\ exec'[id].state = exec[id].state
          /\ exec'[id].kills = exec[id].kills
          /\ exec'[id].timer = exec[id].timer
          /\ exec' = exec /\ pc' = pc /\ tasks' = tasks ]_vars

\* C26 witness: a cancelled task whose call is still awaited, with its child
\* unsignalled and its timer armed.
C26_Witness ==
  \E id \in tasks :
     /\ obj[id].status = "cancelled" /\ IsSome(obj[id].startedAt)
     /\ pc[id] = "executing"
     /\ exec[id].state = "active" /\ exec[id].timer = "armed" /\ exec[id].kills = 0

\* C27: a task whose executor call raised is 'failed', carries the
\* exception's message as error, has completedAt set and no result, and its
\* routine has ended, so it holds no slot.
C27_ThrowBecomesFailed ==
  \A id \in Created :
     exec[id].state = "threw" =>
        /\ obj[id].status = "failed"
        /\ obj[id].error =
             Some(<<"Working directory does not exist:", ResolveCwd(obj[id].workingDirectory)>>)
        /\ IsSome(obj[id].completedAt)
        /\ obj[id].result = None
        /\ pc[id] = "done"
        /\ getRunningCount(obj, {id}) = 0

\* C27 witness: on a single-slot manager the first task's call raised and the
\* second task took the slot.
C27_Witness ==
  /\ maxConcurrent = 1
  /\ \E id \in tasks, other \in tasks :
        /\ id < other
        /\ exec[id].state = "threw" /\ obj[id].status = "failed"
        /\ obj[other].status = "running" /\ exec[other].state = "active"

\* C28: admission is not first-in first-out: a task created while a slot is
\* free starts at once, also when an earlier task is still waiting for its
\* poll, so a later task can run while an earlier one is 'pending'.
C28_NewTaskTakesFreeSlot ==
  [][ (createTaskTool(DefaultInput) /\ getRunningCount(obj, tasks) < maxConcurrent) =>
        LET id == Cardinality(Created) + 1
        IN  /\ obj'[id].status = "running"
            /\ exec'[id].state = "active" ]_vars

\* C28 witness: a later task is 'running' while an earlier one is 'pending'.
C28_Witness ==
  \E early \in tasks, late \in tasks :
     /\ early < late
     /\ obj[early].status = "pending" /\ pc[early] = "sleeping"
     /\ obj[late].status = "running"

\* C29 (as claimed): when createTask returns, the new task is in the registry
\* with status 'pending' and no process has been spawned for it.
C29_PendingWhenCreateReturns ==
  [][ createTaskTool(DefaultInput) =>
        LET id == Cardinality(Created) + 1
        IN  /\ id \in tasks'
            /\ obj'[id].status = "pending"
            /\ exec'[id].state = "none" ]_vars

\* C30 (as claimed): the executor calls that were started and have not
\* returned are never more than maxConcurrent.
C30_LiveCallsAtMostMax ==
  Cardinality({ id \in Created : exec[id].state = "active" }) <= maxConcurrent

\* C31 (as claimed): once deleteTask has removed the record of a task that is
\* still 'pending', the executor is never called for that task.
C31_DeletedPendingNeverSpawns ==
  [][ \A id \in Ids :
        (id \in Created /\ id \notin tasks /\ obj[id].status = "pending"
           /\ exec[id].state = "none")
        => exec'[id].state = "none" ]_vars

\* C32: with finitely many tasks and executor calls that all return, a
\* 'pending' record that is neither cancelled nor deleted does not wait in
\* the poll loop forever: its routine reaches the line that sets it 'running'
\* and stamps startedAt.
C32_PendingEventuallyStarts ==
  \A id \in Ids :
     (id \in tasks /\ obj[id].status = "pending")
        ~> (id \in Created /\ ( \/ IsSome(obj[id].startedAt)
                                \/ obj[id].status = "cancelled"
                                \/ id \notin tasks ))

\* C32 witness: a task that waited for the clock to advance has started after
\* an earlier task ended.
C32_Witness ==
  \E id \in tasks, earlier \in Created :
     /\ earlier < id
     /\ obj[earlier].status \in Terminal
     /\ IsSome(obj[id].startedAt)
     /\ Get(obj[id].startedAt) > obj[id].createdAt
     /\ obj[id].status # "cancelled"

\* C33: for every record getTask can show, completedAt is set exactly when
\* the status is 'completed', 'failed' or 'cancelled'; startedAt is unset
\* while the status is 'pending' and set when it is 'running', 'completed'
\* or 'failed'.
C33_TimestampsMatchStatus ==
  \A id \in tasks :
     LET info == Get(getTask(id))
     IN  /\ IsSome(info.completedAt) <=> info.status \in {"completed", "failed", "cancelled"}
         /\ info.status = "pending" => ~IsSome(info.startedAt)
         /\ info.status \in {"running", "completed", "failed"} => IsSome(info.startedAt)

\* C33 witness: a record cancelled before it started next to a record that
\* started and failed.
C33_Witness ==
  \E id \in tasks, other \in tasks :
     /\ obj[id].status = "cancelled"
     /\ ~IsSome(Get(getTask(id)).startedAt) /\ IsSome(Get(getTask(id)).completedAt)
     /\ obj[other].status = "failed"
     /\ IsSome(Get(getTask(other)).startedAt) /\ IsSome(Get(getTask(other)).completedAt)

\* C34: for every record getTask can show, the status is 'completed' exactly
\* when the record has a result with success true; a 'failed' record has an
\* error message; a 'pending', 'running', 'completed' or 'cancelled' record
\* has none.
C34_StatusMatchesOutcome ==
  \A id \in tasks :
     LET info == Get(getTask(id))
     IN  /\ info.status = "completed" <=> info.success = Some(TRUE)
         /\ info.status = "failed" => IsSome(info.error)
         /\ info.status \in {"pending", "running", "completed", "cancelled"} =>
               ~IsSome(info.error)

\* C34 witness: a record completed with exit code 0 next to a record that
\* failed on a non-zero exit code and carries the default error message.
C34_Witness ==
  \E id \in tasks, other \in tasks :
     /\ Get(getTask(id)).status = "completed"
     /\ Get(getTask(id)).exitCode = Some(0)
     /\ Get(getTask(other)).status = "failed"
     /\ Get(getTask(other)).success = Some(FALSE)
     /\ Get(getTask(other)).error = Some(TaskFailedMessage)

\* C35: every executor call delivers at most one result, exactly one once it
\* has returned, also when both 'close' and 'error' arrive; SIGTERM is sent
\* at most once per call and never after the result was delivered, since
\* the first event clears the timer.
C35_OneResultOneSignal ==
  \A id \in Created :
     /\ exec[id].results <= 1
     /\ exec[id].state = "resolved" <=> exec[id].results = 1
     /\ exec[id].state = "resolved" <=> IsSome(exec[id].result)
     /\ (exec[id].closed \/ exec[id].errored) => exec[id].state = "resolved"
     /\ exec[id].kills <= 1
     /\ ~exec[id].killedAfterResult
     /\ exec[id].state = "resolved" => exec[id].timer # "armed"

\* C35 witness: the timer fired, then 'error' and 'close' both arrived; the
\* call holds the result built by 'error' alone.
C35_Witness ==
  \E id \in Created :
     /\ exec[id].closed /\ exec[id].errored /\ exec[id].timedOut
     /\ exec[id].results = 1 /\ exec[id].kills = 1
     /\ Get(exec[id].result).exitCode = NullCode
====
